---- MODULE Spec2Model ----
(***************************************************************************)
(* The live plot of mercurygui (src/mercurygui/main.py): the rolling       *)
(* sample buffer of MercuryMonitorApp, its look-back window selection, and *)
(* the downsampling, axis limits and redraw choice of MercuryPlotCanvas;   *)
(* the slots connect_slots wires and disconnect_slots unwires; and the     *)
(* overheat check and the setpoint entry that write to the controller.     *)
(*                                                                         *)
(* Units.  The code computes with floats; the model computes the same      *)
(* quantities exactly, as integers in fixed units:                         *)
(*   timestamps (time.time())        whole seconds                         *)
(*   relative time ("minutes")       microseconds, 1 minute = MINUTE       *)
(*   temperatures                    tenths of a kelvin, 1 K = KELVIN      *)
(*   gas flow / heater fractions     hundredths (the percent value / 100)  *)
(***************************************************************************)
EXTENDS Integers, Sequences, FiniteSets, TLC

VARIABLES
    clock,          \* the value time.time() returns, in seconds
    slider,         \* horizontalSlider.value(), in minutes
    nSlots,         \* how often update_plot is connected to valueChanged
    xData,          \* MercuryMonitorApp.xData
    yDataT,         \* MercuryMonitorApp.yDataT
    yDataG,         \* MercuryMonitorApp.yDataG
    yDataH,         \* MercuryMonitorApp.yDataH
    xDataZeroMin,   \* MercuryMonitorApp.xDataZeroMin
    current,        \* MercuryMonitorApp.CurrentXData, CurrentYDataT, ...G, ...H
    timeLabel,      \* the minutes shown by timeLabel, 0 for the text of main.ui
    canvas,         \* MercuryPlotCanvas: its series, cached limits, axes, last draw
    event,          \* of the handler that ran last: which it was, how many
                    \* renders it started and the exception it raised ("none"
                    \* if it returned)
    arrived,        \* history: every sample appended so far, in arrival order
    nUnpaired,      \* how often each slot that connect_slots connects and
                    \* disconnect_slots never disconnects is connected
    lastConn,       \* the last connection event: "connected", "disconnected",
                    \* or "none" before the first
    led,            \* the connection LED: whether it is checked
    status,         \* the status bar: the text shown, and whether as an error
    control,        \* feed.control: heater_auto, heater (percent), t_setpoint
    writes,         \* the attributes of feed.control the last handler set,
                    \* in order, each with its value
    ctlEvent,       \* the controller handler that ran last, its argument, and
                    \* feed.control as it was before
    dsSeries,       \* Downsampler under test: the input series
    dsM,            \* Downsampler under test: maxPoints
    dsOut,          \* Downsampler under test: the output
    dsAgain,        \* Downsampler under test: the output, downsampled again
    dsStage         \* Downsampler under test: "idle", "in", "once", "twice"

appVars == <<clock, slider, nSlots, xData, yDataT, yDataG, yDataH,
             xDataZeroMin, current, timeLabel, canvas, event, arrived>>
connVars == <<nUnpaired, lastConn, led>>
ctlVars == <<control, writes, ctlEvent>>
dsVars == <<dsSeries, dsM, dsOut, dsAgain, dsStage>>
vars == <<appVars, connVars, status, ctlVars, dsVars>>

----------------------------------------------------------------------------
(* Units *)

SECOND == 1000 * 1000
MINUTE == 60 * SECOND
KELVIN == 10

----------------------------------------------------------------------------
(* Bounds of the model.  MAX_SAMPLES and dpts stand for the capacity 86400 *)
(* (main.py:450) and the point limit 1000 (main.py:97), scaled down so     *)
(* that eviction and strides above 1 happen within a few readings; the     *)
(* code is modelled for an arbitrary capacity and point limit.             *)
(* MaxReadings bounds the readings of Spec, ConnReadings those of         *)
(* SpecConn, MaxConnects the connection-established events of SpecConn.    *)

MAX_SAMPLES == 4
dpts == 2
MaxReadings == 5
MaxConnects == 2
ConnReadings == 3
MaxLen == 9
MaxM == 4

\* seconds between two readings
Dts == {30, 270}
\* positions of the look-back slider, in minutes
SliderValues == {1, 5}
\* readings the feed delivers: Temp in tenths of K, the two percentages
Readings ==
    { [Temp |-> 2947, FlowPercent |-> 10, HeaterPercent |-> 50],
      [Temp |-> 2953, FlowPercent |-> 20, HeaterPercent |-> 0] }

\* further readings, at and above the overheating threshold of 310 K
HotReadings ==
    { [Temp |-> 3100, FlowPercent |-> 10, HeaterPercent |-> 50],
      [Temp |-> 3101, FlowPercent |-> 10, HeaterPercent |-> 50],
      [Temp |-> 3200, FlowPercent |-> 0, HeaterPercent |-> 100] }
\* heater outputs of the controller at start-up, in percent
HeaterValues == {0, 50}
\* temperature setpoints the operator enters, in tenths of K
Entered == {0, 34, 35, 36, 2950, 3099, 3100, 3101}

----------------------------------------------------------------------------
(* numpy and math helpers *)

SeqMax(s) == CHOOSE x \in {s[i] : i \in 1..Len(s)} :
                 \A i \in 1..Len(s) : s[i] <= x
SeqMin(s) == CHOOSE x \in {s[i] : i \in 1..Len(s)} :
                 \A i \in 1..Len(s) : x <= s[i]
Max2(a, b) == IF a >= b THEN a ELSE b
Abs(a) == IF a >= 0 THEN a ELSE -a
\* math.floor and math.ceil of a temperature (tenths of K, never negative)
Floor(t) == (t \div KELVIN) * KELVIN
\* (mutant of Ceil: rounds down)
CeilDown(t) == (t \div KELVIN) * KELVIN
Ceil(t) == ((t + KELVIN - 1) \div KELVIN) * KELVIN

\* (mutant of LastN: s[:n], the oldest n entries)
FirstN(s, n) == IF Len(s) <= n THEN s ELSE SubSeq(s, 1, n)
\* s[-n:]
LastN(s, n) == IF Len(s) <= n THEN s ELSE SubSeq(s, Len(s) - n + 1, Len(s))

\* s[mask] for a boolean array mask of the same length
RECURSIVE BoolIndex(_, _)
BoolIndex(s, mask) ==
    IF s = << >> THEN << >>
    ELSE (IF Head(mask) THEN <<Head(s)>> ELSE << >>)
             \o BoolIndex(Tail(s), Tail(mask))

\* (mutant of StepSize: the quotient rounded up)
StepSizeUp(n, m) == LET q == (n + m - 1) \div m IN IF q >= 1 THEN q ELSE 1
\* int(max([n/m, 1]))
StepSize(n, m) == LET q == n \div m IN IF q >= 1 THEN q ELSE 1
\* (mutant of Slice: s[1::step])
SliceFromSecond(s, step) ==
    [i \in 1..((Len(s) + step - 2) \div step) |-> s[(i - 1) * step + 2]]
\* s[::step]
Slice(s, step) ==
    [i \in 1..((Len(s) + step - 1) \div step) |-> s[(i - 1) * step + 1]]
\* the downsampling of one series to maxPoints m
Downsample(s, m) == Slice(s, StepSize(Len(s), m))

----------------------------------------------------------------------------
(* MercuryPlotCanvas *)

\* self.x_pad * a, with x_pad = 0.7/100; a is a whole number of milliseconds
XPadTimes(a) == (a \div 1000) * 7
\* 1/10000 of a minute
MinPad == MINUTE \div 10000
\* np.interp(x, xp, fp) for one-element xp and fp: the constant fp[0]
Interp1(x, xp, fp) == fp

\* MercuryPlotCanvas.__init__: the cached limits and the axes it sets
DefaultXLim == <<-MINUTE - XPadTimes(MINUTE), 0 + XPadTimes(MINUTE)>>
DefaultYLim == <<0, 300 * KELVIN>>
CanvasInit ==
    [ CurrentXData |-> << >>, CurrentYDataT |-> << >>,
      CurrentYDataG |-> << >>, CurrentYDataH |-> << >>,
      xLim |-> DefaultXLim, yLim |-> DefaultYLim,
      axis |-> DefaultXLim \o DefaultYLim,
      redraw |-> "none",
      limBefore |-> DefaultXLim \o DefaultYLim ]

\* (mutant of XPadAbs: no minimum padding)
XPadAbsNoMin(x_min) == XPadTimes(Abs(x_min))
\* (mutant of XPadAbs: the padding taken of the width up to the default
\* right limit 0 + x_pad)
XPadAbsOfRange(x_min) ==
    Max2(XPadTimes(Abs(x_min) + XPadTimes(MINUTE)), MinPad)
\* x_pad_abs of update_plot
XPadAbs(x_min) == Max2(XPadTimes(Abs(x_min)), MinPad)
\* xLimNew and yLimNew of update_plot for non-empty plotted data
XLimNew(x_min) == <<x_min - XPadAbs(x_min), XPadAbs(x_min)>>
YLimNew(ts) == <<Floor(SeqMin(ts)) - (22 * KELVIN) \div 10,
                 Ceil(SeqMax(ts)) + (32 * KELVIN) \div 10>>

\* (mutant of SameLimits: only the x limits are compared)
SameXLimits(xNew, yNew, xOld, yOld) == xNew = xOld
\* xLimNew + yLimNew == self.xLim + self.yLim
SameLimits(xNew, yNew, xOld, yOld) == xNew \o yNew = xOld \o yOld

\* MercuryPlotCanvas.update_plot(x_data, y_data_t, y_data_g, y_data_h, x_min):
\* the canvas afterwards and the exception raised, if any.  redraw is the
\* branch taken ("incremental": artists only, "full": axes rescaled and
\* draw()); limBefore records the limits that were cached on entry.
CanvasUpdatePlot(cv, x_data, y_data_t, y_data_g, y_data_h, x_min) ==
    LET step_size == StepSize(Len(x_data), dpts)
        cx == Slice(x_data, step_size)
        ct == Slice(y_data_t, step_size)
        cg == Slice(y_data_g, step_size)
        ch == Slice(y_data_h, step_size)
    IN  IF cx = << >>
        THEN \* self.CurrentXData[0] of an empty array
             [ canvas |-> [cv EXCEPT !.CurrentXData = cx, !.CurrentYDataT = ct,
                                     !.CurrentYDataG = cg, !.CurrentYDataH = ch],
               raised |-> "IndexError" ]
        ELSE LET clamp == cx[1] < x_min
                 cx2 == IF clamp THEN [cx EXCEPT ![1] = x_min] ELSE cx
                 ct2 == IF clamp
                        THEN [ct EXCEPT ![1] = Interp1(x_min, cx2[1], ct[1])]
                        ELSE ct
                 xLimNew == IF Len(cx2) # 0 THEN XLimNew(x_min) ELSE cv.xLim
                 yLimNew == IF Len(cx2) # 0 THEN YLimNew(ct2) ELSE cv.yLim
                 same == SameLimits(xLimNew, yLimNew, cv.xLim, cv.yLim)
             IN  [ canvas |->
                     [ CurrentXData |-> cx2, CurrentYDataT |-> ct2,
                       CurrentYDataG |-> cg, CurrentYDataH |-> ch,
                       xLim |-> xLimNew, yLim |-> yLimNew,
                       axis |-> IF same THEN cv.axis ELSE xLimNew \o yLimNew,
                       redraw |-> IF same THEN "incremental" ELSE "full",
                       limBefore |-> cv.xLim \o cv.yLim ],
                   raised |-> "none" ]

----------------------------------------------------------------------------
(* MercuryMonitorApp *)

NoCurrent == [ CurrentXData |-> << >>, CurrentYDataT |-> << >>,
               CurrentYDataG |-> << >>, CurrentYDataH |-> << >> ]

\* (mutant of XSlice: a strict comparison)
XSliceStrict(xz, v) == [i \in 1..Len(xz) |-> xz[i] > -(v * MINUTE)]
\* x_slice of update_plot: self.xDataZeroMin >= -self.horizontalSlider.value()
XSlice(xz, v) == [i \in 1..Len(xz) |-> xz[i] >= -(v * MINUTE)]

\* MercuryMonitorApp.update_plot() on the state st = [current, canvas,
\* timeLabel, raised]: the state afterwards.  x_min is assigned only for a
\* non-empty selection, so the call of canvas.update_plot raises
\* UnboundLocalError for an empty one.  The canvas slices x_data and
\* y_data_t without copying, so what it writes to element 0 shows in the
\* application's arrays too.
UpdatePlot(st, xz, yT, yG, yH, v) ==
    LET x_slice == XSlice(xz, v)
        sx == BoolIndex(xz, x_slice)
        sel == [ CurrentXData |-> sx,
                 CurrentYDataT |-> BoolIndex(yT, x_slice),
                 CurrentYDataG |-> BoolIndex(yG, x_slice),
                 CurrentYDataH |-> BoolIndex(yH, x_slice) ]
    IN  IF Len(sx) = 0
        THEN [st EXCEPT !.current = sel,
                        !.raised = IF st.raised = "none"
                                   THEN "UnboundLocalError" ELSE st.raised]
        ELSE LET x_min == Max2(-(v * MINUTE), sx[1])
                 r == CanvasUpdatePlot(st.canvas, sel.CurrentXData,
                                       sel.CurrentYDataT, sel.CurrentYDataG,
                                       sel.CurrentYDataH, x_min)
             IN  IF r.raised # "none"
                 THEN [st EXCEPT !.current = sel, !.canvas = r.canvas,
                                 !.raised = IF st.raised = "none"
                                            THEN r.raised ELSE st.raised]
                 ELSE [st EXCEPT
                         !.current =
                             [sel EXCEPT
                                !.CurrentXData[1] = r.canvas.CurrentXData[1],
                                !.CurrentYDataT[1] = r.canvas.CurrentYDataT[1]],
                         !.canvas = r.canvas,
                         !.timeLabel = v]

\* update_plot called once by each of n connections of valueChanged
RECURSIVE UpdatePlotTimes(_, _, _, _, _, _, _)
UpdatePlotTimes(n, st, xz, yT, yG, yH, v) ==
    IF n = 0 THEN st
    ELSE UpdatePlotTimes(n - 1, UpdatePlot(st, xz, yT, yG, yH, v),
                         xz, yT, yG, yH, v)

RenderState ==
    [current |-> current, canvas |-> canvas, timeLabel |-> timeLabel,
     raised |-> "none"]

\* (mutant of ZeroMin: relative to the oldest timestamp)
ZeroMinOfOldest(xs) == [i \in 1..Len(xs) |-> (xs[i] - SeqMin(xs)) * SECOND]
\* (self.xData - max(self.xData))/60, in microseconds
ZeroMin(xs) == [i \in 1..Len(xs) |-> (xs[i] - SeqMax(xs)) * SECOND]

\* (mutant of UpdatePlotData: the render comes before the append)
UpdatePlotDataRenderFirst(readings, dt) ==
    /\ Len(arrived) < MaxReadings
    /\ LET t == clock + dt
           st == UpdatePlot(RenderState, xDataZeroMin, yDataT, yDataG, yDataH,
                            slider)
       IN  /\ clock' = t
           /\ xData' = LastN(Append(xData, t), MAX_SAMPLES)
           /\ yDataT' = LastN(Append(yDataT, readings.Temp), MAX_SAMPLES)
           /\ yDataG' = LastN(Append(yDataG, readings.FlowPercent), MAX_SAMPLES)
           /\ yDataH' = LastN(Append(yDataH, readings.HeaterPercent),
                              MAX_SAMPLES)
           /\ xDataZeroMin' = ZeroMin(xData')
           /\ current' = st.current
           /\ canvas' = st.canvas
           /\ timeLabel' = st.timeLabel
           /\ event' = [kind |-> "reading", renders |-> 1,
                        raised |-> st.raised]
           /\ arrived' = Append(arrived,
                  [t |-> t, T |-> readings.Temp, G |-> readings.FlowPercent,
                   H |-> readings.HeaterPercent])
    /\ UNCHANGED <<slider, nSlots, connVars, status, ctlVars, dsVars>>
\* MercuryMonitorApp.update_plot_data(readings), time.time() being dt
\* seconds after the previous reading
UpdatePlotData(readings, dt) ==
    /\ Len(arrived) < MaxReadings
    /\ LET t == clock + dt
           xs == LastN(Append(xData, t), MAX_SAMPLES)
           ts == LastN(Append(yDataT, readings.Temp), MAX_SAMPLES)
           gs == LastN(Append(yDataG, readings.FlowPercent), MAX_SAMPLES)
           hs == LastN(Append(yDataH, readings.HeaterPercent), MAX_SAMPLES)
           xz == ZeroMin(xs)
           st == UpdatePlot(RenderState, xz, ts, gs, hs, slider)
       IN  /\ clock' = t
           /\ xData' = xs
           /\ yDataT' = ts
           /\ yDataG' = gs
           /\ yDataH' = hs
           /\ xDataZeroMin' = xz
           /\ current' = st.current
           /\ canvas' = st.canvas
           /\ timeLabel' = st.timeLabel
           /\ event' = [kind |-> "reading", renders |-> 1,
                        raised |-> st.raised]
           /\ arrived' = Append(arrived,
                  [t |-> t, T |-> readings.Temp, G |-> readings.FlowPercent,
                   H |-> readings.HeaterPercent])
    /\ UNCHANGED <<slider, nSlots, connVars, status, ctlVars, dsVars>>

\* the user moves the look-back slider to v: valueChanged calls update_plot
\* once per connection made by connect_slots
SliderMoved(v) ==
    /\ v # slider
    /\ slider' = v
    /\ LET st == UpdatePlotTimes(nSlots, RenderState, xDataZeroMin,
                                 yDataT, yDataG, yDataH, v)
       IN  /\ current' = st.current
           /\ canvas' = st.canvas
           /\ timeLabel' = st.timeLabel
           /\ event' = [kind |-> "slider", renders |-> nSlots,
                        raised |-> st.raised]
    /\ UNCHANGED <<clock, nSlots, xData, yDataT, yDataG, yDataH,
                   xDataZeroMin, arrived, connVars, status, ctlVars, dsVars>>

\* display_message(text) and display_error(text)
Message(text) == [text |-> text, error |-> FALSE]
Error(text) == [text |-> text, error |-> TRUE]

\* update_GUI_connection(True): connect_slots connects every slot once
\* more, update_plot to valueChanged among them.  nSlots counts the
\* connections of a slot that disconnect_slots disconnects, nUnpaired those
\* of a slot it does not: the two lambdas on heater_auto_Signal and
\* flow_auto_Signal and feed.dialog.show on modulesAction.triggered.
ConnectionEstablished ==
    /\ nUnpaired < MaxConnects
    /\ nSlots' = nSlots + 1
    /\ nUnpaired' = nUnpaired + 1
    /\ lastConn' = "connected"
    /\ led' = TRUE
    /\ status' = Message("Connection established.")
    /\ event' = [kind |-> "connected", renders |-> 0, raised |-> "none"]
    /\ UNCHANGED <<clock, slider, xData, yDataT, yDataG, yDataH, xDataZeroMin,
                   current, timeLabel, canvas, arrived, ctlVars, dsVars>>

\* (mutant of ConnectionLost: the history is dropped with the connection)
ConnectionLostClearing ==
    /\ IF nSlots = 0
       THEN /\ nSlots' = nSlots
            /\ led' = led
            /\ event' = [kind |-> "disconnected", renders |-> 0,
                         raised |-> "TypeError"]
       ELSE /\ nSlots' \in {nSlots - 1, 0}
            /\ led' = FALSE
            /\ event' = [kind |-> "disconnected", renders |-> 0,
                         raised |-> "none"]
    /\ lastConn' = "disconnected"
    /\ status' = Error("Disconnected.")
    /\ xData' = << >>
    /\ yDataT' = << >>
    /\ yDataG' = << >>
    /\ yDataH' = << >>
    /\ xDataZeroMin' = << >>
    /\ UNCHANGED <<clock, slider, current, timeLabel, canvas, arrived,
                   nUnpaired, ctlVars, dsVars>>
\* update_GUI_connection(False): disconnect_slots.  Disconnecting a slot
\* that is not connected raises at the first disconnect, and the rest of
\* the handler, which unchecks the LED, is skipped; with several connections
\* the binding removes one of them or all of them.
ConnectionLost ==
    /\ IF nSlots = 0
       THEN /\ nSlots' = nSlots
            /\ led' = led
            /\ event' = [kind |-> "disconnected", renders |-> 0,
                         raised |-> "TypeError"]
       ELSE /\ nSlots' \in {nSlots - 1, 0}
            /\ led' = FALSE
            /\ event' = [kind |-> "disconnected", renders |-> 0,
                         raised |-> "none"]
    /\ lastConn' = "disconnected"
    /\ status' = Error("Disconnected.")
    /\ UNCHANGED <<clock, slider, xData, yDataT, yDataG, yDataH, xDataZeroMin,
                   current, timeLabel, canvas, arrived, nUnpaired, ctlVars,
                   dsVars>>

----------------------------------------------------------------------------
(* The handlers that write to the controller, feed.control *)

\* (mutant of Overheated: 310 K itself counts as overheated)
OverheatedAtLeast(readings) == readings.Temp >= 310 * KELVIN
\* readings['Temp'] > 310
Overheated(readings) == readings.Temp > 310 * KELVIN

\* MercuryMonitorApp._check_overheat(readings), a slot of newReadingsSignal
CheckOverheat(readings) ==
    /\ IF Overheated(readings)
       THEN /\ status' = Error("Over temperature!")
            /\ control' = [control EXCEPT !.heater_auto = "OFF", !.heater = 0]
            /\ writes' = << <<"heater_auto", "OFF">>, <<"heater", 0>> >>
       ELSE /\ UNCHANGED <<status, control>>
            /\ writes' = << >>
    /\ ctlEvent' = [handler |-> "_check_overheat", arg |-> readings.Temp,
                    before |-> control]
    /\ UNCHANGED <<appVars, connVars, dsVars>>

\* (mutant of ValidSetpoint: the two ends are allowed)
ValidSetpointInclusive(newT) ==
    newT <= 310 * KELVIN /\ newT >= (35 * KELVIN) \div 10
\* newT < 310 and newT > 3.5
ValidSetpoint(newT) == newT < 310 * KELVIN /\ newT > (35 * KELVIN) \div 10

\* the number t2_edit.value() returns for the text the operator entered
T2EditValue(entered) == entered

\* MercuryMonitorApp.change_t_setpoint(), the slot connect_slots connects
\* to t2_edit.returnPressed
ChangeTSetpoint(entered) ==
    /\ nSlots > 0
    /\ LET newT == T2EditValue(entered)
       IN  /\ IF ValidSetpoint(newT)
              THEN /\ status' = Message("T_setpoint = %s K")
                   /\ control' = [control EXCEPT !.t_setpoint = newT]
                   /\ writes' = << <<"t_setpoint", newT>> >>
              ELSE /\ status' = Error("Error: Only temperature setpoints between 3.5 K and 300 K allowed.")
                   /\ UNCHANGED control
                   /\ writes' = << >>
           /\ ctlEvent' = [handler |-> "change_t_setpoint", arg |-> newT,
                           before |-> control]
    /\ UNCHANGED <<appVars, connVars, dsVars>>

\* MercuryMonitorApp.__init__ with a fresh MercuryPlotCanvas; the slots are
\* connected at once when the feed is already connected
AppInit ==
    /\ clock = 0
    /\ slider \in SliderValues
    /\ nSlots \in {0, 1}
    /\ xData = << >>
    /\ yDataT = << >>
    /\ yDataG = << >>
    /\ yDataH = << >>
    /\ xDataZeroMin = << >>
    /\ current = NoCurrent
    /\ timeLabel = 0
    /\ canvas = CanvasInit
    /\ event = [kind |-> "init", renders |-> 0, raised |-> "none"]
    /\ arrived = << >>
    /\ nUnpaired = nSlots
    /\ lastConn = IF nSlots = 0 THEN "none" ELSE "connected"
    /\ led = (nSlots > 0)
    /\ status = IF nSlots = 0 THEN Message("Looking for Mercury at %s...")
                ELSE Message("Connection established.")

\* the controller as the application finds it, no handler having written
ControlInit(found) ==
    /\ control = found
    /\ writes = << >>
    /\ ctlEvent = [handler |-> "none", arg |-> 0, before |-> found]

\* the downsampler on its own is not running
DsIdle ==
    /\ dsSeries = << >>
    /\ dsM = 1
    /\ dsOut = << >>
    /\ dsAgain = << >>
    /\ dsStage = "idle"

Init ==
    /\ AppInit
    /\ ControlInit([heater_auto |-> "ON", heater |-> 50, t_setpoint |-> 2950])
    /\ DsIdle

\* the plot: readings arrive and the slider moves, the slots being
\* connected or not as the constructor left them
Next ==
    \/ \E r \in Readings, dt \in Dts : UpdatePlotData(r, dt)
    \/ \E v \in SliderValues : SliderMoved(v)

Spec == Init /\ [][Next]_vars

\* the connection life cycle: connection events in any order, among slider
\* moves and the first ConnReadings readings
ConnNext ==
    \/ ConnectionEstablished
    \/ ConnectionLost
    \/ \E v \in SliderValues : SliderMoved(v)
    \/ \E r \in Readings, dt \in Dts :
          Len(arrived) < ConnReadings /\ UpdatePlotData(r, dt)

SpecConn == Init /\ [][ConnNext]_vars

\* the controller: found in any heater state, every reading is checked for
\* overheating, and the operator enters setpoints
CtlInit ==
    /\ AppInit
    /\ \E found \in [heater_auto : {"ON", "OFF"}, heater : HeaterValues,
                      t_setpoint : {2950}] : ControlInit(found)
    /\ DsIdle

CtlNext ==
    \/ \E r \in Readings \cup HotReadings : CheckOverheat(r)
    \/ \E entered \in Entered : ChangeTSetpoint(entered)

SpecCtl == CtlInit /\ [][CtlNext]_vars

----------------------------------------------------------------------------
(* The downsampling of update_plot applied to a series of any length with  *)
(* any point limit, and applied again to its own output.                   *)

DsLens == (0..MaxLen) \cup {1999, 2000}
DsMs == (1..MaxM) \cup {500, 1000}

DsInit ==
    /\ AppInit
    /\ ControlInit([heater_auto |-> "ON", heater |-> 50, t_setpoint |-> 2950])
    /\ dsSeries \in {[i \in 1..n |-> i] : n \in DsLens}
    /\ dsM \in DsMs
    /\ dsOut = << >>
    /\ dsAgain = << >>
    /\ dsStage = "in"

DsApply ==
    /\ dsStage = "in"
    /\ dsOut' = Downsample(dsSeries, dsM)
    /\ dsStage' = "once"
    /\ UNCHANGED <<appVars, connVars, status, ctlVars, dsSeries, dsM, dsAgain>>

DsApplyAgain ==
    /\ dsStage = "once"
    /\ dsAgain' = Downsample(dsOut, dsM)
    /\ dsStage' = "twice"
    /\ UNCHANGED <<appVars, connVars, status, ctlVars, dsSeries, dsM, dsOut>>

DsNext == DsApply \/ DsApplyAgain

SpecDS == DsInit /\ [][DsNext]_vars

----------------------------------------------------------------------------
(* Properties *)

\* the last handler started a render and returned without raising
Rendered == event.renders > 0 /\ event.raised = "none"
\* the look-back boundary, as a relative time
LookBack == -(slider * MINUTE)
\* the relative time of buffered sample i: (t - maxTimestamp)/60
RelMinute(i) == (xData[i] - xData[Len(xData)]) * SECOND

\* C1: after any sequence of new-reading events each of the four series
\* holds at most MAX_SAMPLES entries, and they are exactly the most recently
\* appended min(n, MAX_SAMPLES) samples in arrival order.
BoundedGrowth ==
    LET n == Len(arrived)
        k == IF n <= MAX_SAMPLES THEN n ELSE MAX_SAMPLES
    IN  /\ Len(xData) = k /\ Len(yDataT) = k
        /\ Len(yDataG) = k /\ Len(yDataH) = k
        /\ \A i \in 1..k :
              /\ xData[i] = arrived[n - k + i].t
              /\ yDataT[i] = arrived[n - k + i].T
              /\ yDataG[i] = arrived[n - k + i].G
              /\ yDataH[i] = arrived[n - k + i].H
\* more readings than the capacity have arrived: the oldest were dropped
EvictionHappened ==
    /\ Len(arrived) > MAX_SAMPLES
    /\ Len(xData) = MAX_SAMPLES
    /\ xData[1] = arrived[Len(arrived) - MAX_SAMPLES + 1].t

\* C2: a render while the buffer is empty returns without raising and
\* leaves the axis limits at the defaults x = [-1.007, 0.007], y = [0, 300].
EmptyBufferFallback ==
    (xData = << >> /\ event.renders > 0) =>
        /\ event.raised = "none"
        /\ canvas.xLim = <<-60420000, 420000>>
        /\ canvas.yLim = <<0, 3000>>
        /\ canvas.axis = <<-60420000, 420000, 0, 3000>>

\* the limits a completed render computed, from what it was given
LeftEdge == Max2(LookBack, current.CurrentXData[1])
NewBounds ==
    LET pad == Max2(7 * (Abs(LeftEdge) \div 1000), 6000)
    IN  <<LeftEdge - pad, pad,
          Floor(SeqMin(canvas.CurrentYDataT)) - 22,
          Ceil(SeqMax(canvas.CurrentYDataT)) + 32>>

\* C3: a render redraws incrementally iff the limits it computed equal the
\* limits cached by the previous render (the defaults before the first);
\* otherwise it applies the new limits to the axes and redraws fully; either
\* way the cached limits are the computed ones afterwards.
RedrawStrategy ==
    Rendered =>
        /\ (canvas.redraw = "incremental") <=> (NewBounds = canvas.limBefore)
        /\ (canvas.redraw = "full") <=> (NewBounds # canvas.limBefore)
        /\ canvas.redraw = "full" => canvas.axis = NewBounds
        /\ canvas.xLim \o canvas.yLim = NewBounds
\* both kinds of redraw happen, the incremental one on data-driven limits
IncrementalRedrawHappened ==
    /\ Rendered
    /\ canvas.redraw = "incremental"
    /\ canvas.limBefore # DefaultXLim \o DefaultYLim
    /\ Len(xData) >= 2

\* C4: the window selection is exactly the samples whose relative minute is
\* >= -lookBackMinutes, and they are a contiguous suffix of the buffer.
WindowCorrectness ==
    event.renders > 0 =>
        LET n == Len(xData)
            k == Len(current.CurrentXData)
        IN  /\ k <= n
            /\ \A i \in 1..n : (i > n - k) <=> (RelMinute(i) >= LookBack)
            /\ \A j \in 1..k :
                  /\ current.CurrentXData[j] = RelMinute(n - k + j)
                  /\ current.CurrentYDataT[j] = yDataT[n - k + j]
                  /\ current.CurrentYDataG[j] = yDataG[n - k + j]
                  /\ current.CurrentYDataH[j] = yDataH[n - k + j]
            /\ Len(current.CurrentYDataT) = k
            /\ Len(current.CurrentYDataG) = k
            /\ Len(current.CurrentYDataH) = k
\* timestamps [t-300s, t-30s, t] and look-back 1: t-30s and t are selected
WindowExample ==
    /\ event.renders > 0
    /\ slider = 1
    /\ Len(xData) = 3
    /\ xDataZeroMin = <<-300 * SECOND, -30 * SECOND, 0>>
    /\ current.CurrentXData = <<-30 * SECOND, 0>>

\* C5: the series handed to the plot hold at most dpts elements.
PlottedWithinDpts ==
    Rendered =>
        /\ Len(canvas.CurrentXData) <= dpts
        /\ Len(canvas.CurrentYDataT) <= dpts
        /\ Len(canvas.CurrentYDataG) <= dpts
        /\ Len(canvas.CurrentYDataH) <= dpts

\* C6: whenever the buffer holds a sample older than the look-back
\* boundary, the first plotted x-value equals -lookBackMinutes.
FirstPointAtLookBack ==
    (Rendered /\ \E i \in 1..Len(xData) : RelMinute(i) < LookBack) =>
        canvas.CurrentXData[1] = LookBack

\* C7: downsampling n elements to maxPoints m returns the elements at
\* indices 0, s, 2s, ... with s = max(floor(n/m), 1), ceil(n/s) of them
\* (500 at stride 4 for n = 2000, m = 500), and downsampling the output
\* again with the same m returns it unchanged.
DownsampleDeterminism ==
    LET n == Len(dsSeries)
        s == IF n \div dsM > 1 THEN n \div dsM ELSE 1
        c == (n + s - 1) \div s
    IN  /\ dsStage \in {"once", "twice"} =>
              /\ Len(dsOut) = c
              /\ \A i \in 1..c : dsOut[i] = dsSeries[(i - 1) * s + 1]
              /\ (n = 2000 /\ dsM = 500) => (s = 4 /\ Len(dsOut) = 500)
        /\ dsStage = "twice" => dsAgain = dsOut
\* 2000 elements downsampled to 500 points, and downsampled again
DownsampleExample ==
    /\ dsStage = "twice"
    /\ Len(dsSeries) = 2000
    /\ dsM = 500
    /\ Len(dsOut) = 500
    /\ dsOut[2] = 5

\* the earliest relative minute among the buffered samples in the window
EarliestVisible ==
    SeqMin(SelectSeq(xDataZeroMin, LAMBDA x : x >= LookBack))

\* C8: after a render of a non-empty window the x limits are
\* [leftEdge - pad, 0 + pad] with leftEdge = max(-lookBackMinutes, earliest
\* visible relative minute) and pad = max(0.007 * |leftEdge - 0|, 0.0001).
XAxisBounds ==
    Rendered =>
        LET leftEdge == Max2(LookBack, EarliestVisible)
            rightEdge == 0
            pad == Max2((7 * Abs(leftEdge - rightEdge)) \div 1000,
                        MINUTE \div 10000)
        IN  canvas.xLim = <<leftEdge - pad, rightEdge + pad>>
\* a window reaching back 30 s, and one of a single sample (minimum padding)
XAxisExample ==
    /\ Rendered
    /\ canvas.xLim = <<-30 * SECOND - 210000, 210000>>
    /\ Len(xData) >= 2
XAxisMinPadExample ==
    /\ Rendered
    /\ canvas.xLim = <<-6000, 6000>>

\* the temperatures of the plotted points: every step-th sample of the
\* window, step = max(floor(n/dpts), 1)
PlottedT ==
    LET w == current.CurrentYDataT
        q == Len(w) \div dpts
        s == IF q > 1 THEN q ELSE 1
    IN  {w[i] : i \in {j \in 1..Len(w) : (j - 1) % s = 0}}
WindowT == {current.CurrentYDataT[i] : i \in 1..Len(current.CurrentYDataT)}
SetMin(S) == CHOOSE x \in S : \A y \in S : x <= y
SetMax(S) == CHOOSE x \in S : \A y \in S : y <= x

\* C9 as stated: after a render of a non-empty window, yMin = floor(min T)
\* - 2.2 and yMax = ceil(max T) + 3.2 over all samples of the window.
YAxisBoundsOfWindow ==
    Rendered =>
        canvas.yLim = <<(SetMin(WindowT) \div 10) * 10 - 22,
                        ((SetMax(WindowT) + 9) \div 10) * 10 + 32>>
\* C9 as amended: after a render of a non-empty window, yMin = floor(min T)
\* - 2.2 and yMax = ceil(max T) + 3.2 over the plotted (downsampled)
\* samples of the window.
YAxisBoundsOfPlotted ==
    Rendered =>
        canvas.yLim = <<(SetMin(PlottedT) \div 10) * 10 - 22,
                        ((SetMax(PlottedT) + 9) \div 10) * 10 + 32>>
\* a render with stride 2 whose window holds a temperature not plotted
YAxisExample ==
    /\ Rendered
    /\ Len(current.CurrentYDataT) >= 2 * dpts
    /\ PlottedT # WindowT
    /\ canvas.yLim = <<2918, 2982>>

\* C10 as stated: for a visible range starting at -5.0 minutes the padding
\* is 0.007 * 5.007 = 0.035049 minutes, on both sides.
AxisPaddingOfRange ==
    (Rendered /\ LeftEdge = -5 * MINUTE) =>
        canvas.xLim = <<-5 * MINUTE - 2102940, 0 + 2102940>>
\* C10 as amended: for a visible range [-5.0, 0] the padding is
\* max(0.007 * 5.0, 0.0001) = 0.035 minutes, on both sides.
AxisPaddingOfLeftEdge ==
    (Rendered /\ LeftEdge = -5 * MINUTE) =>
        canvas.xLim = <<-5 * MINUTE - 2100000, 0 + 2100000>>
\* a render whose earliest visible sample is 5 minutes old
AxisPaddingExample ==
    /\ Rendered
    /\ slider = 5
    /\ current.CurrentXData[1] = -5 * MINUTE
    /\ canvas.axis[1] = -302100000
    /\ canvas.axis[2] = 2100000

\* C13: after every new-reading event the relative-minute series is as long
\* as the buffer, the newest sample is at relative minute 0 and every other
\* sample at a negative relative minute.
RelativeMinutes ==
    event.kind = "reading" =>
        LET n == Len(xData)
        IN  /\ Len(xDataZeroMin) = n
            /\ xDataZeroMin[n] = 0
            /\ \A i \in 1..(n - 1) : xDataZeroMin[i] < 0
\* a reading arrived at a full buffer: the oldest kept sample is minutes back
RelativeMinutesExample ==
    /\ event.kind = "reading"
    /\ Len(arrived) > MAX_SAMPLES
    /\ Len(xDataZeroMin) = MAX_SAMPLES
    /\ xDataZeroMin[1] <= -(5 * MINUTE)
    /\ xDataZeroMin[MAX_SAMPLES] = 0

\* the number of buffered samples in the look-back window
WindowSize == Cardinality({i \in 1..Len(xData) : RelMinute(i) >= LookBack})
\* the stride of a render of the window
WindowStride == IF WindowSize \div dpts > 1 THEN WindowSize \div dpts ELSE 1
\* the buffered sample behind the i-th plotted element: the window is the
\* last WindowSize samples, taken at every WindowStride-th from its first
SampleOfPlotted(i) == Len(xData) - WindowSize + (i - 1) * WindowStride + 1

\* C14: in every render the plotted x, temperature, gas-flow and heater
\* series come from the same window and the same stride: they are equally
\* long and the i-th element of each is of the same buffered sample.
PlottedAligned ==
    Rendered =>
        LET c == (WindowSize + WindowStride - 1) \div WindowStride
        IN  /\ Len(canvas.CurrentXData) = c
            /\ Len(canvas.CurrentYDataT) = c
            /\ Len(canvas.CurrentYDataG) = c
            /\ Len(canvas.CurrentYDataH) = c
            /\ \A i \in 1..c :
                  /\ canvas.CurrentXData[i] = RelMinute(SampleOfPlotted(i))
                  /\ canvas.CurrentYDataT[i] = yDataT[SampleOfPlotted(i)]
                  /\ canvas.CurrentYDataG[i] = yDataG[SampleOfPlotted(i)]
                  /\ canvas.CurrentYDataH[i] = yDataH[SampleOfPlotted(i)]
\* a render at stride 2 of samples that differ in every series
PlottedAlignedExample ==
    /\ Rendered
    /\ WindowStride = 2
    /\ Len(canvas.CurrentXData) = 2
    /\ canvas.CurrentYDataT[1] # canvas.CurrentYDataT[2]
    /\ canvas.CurrentYDataG[1] # canvas.CurrentYDataG[2]
    /\ canvas.CurrentYDataH[1] # canvas.CurrentYDataH[2]
    /\ yDataT[2] # yDataT[3]

\* series t is series s with x appended and then trimmed to the capacity
AppendedOne(s, t, x) ==
    LET n == Len(s)
        k == IF n + 1 <= MAX_SAMPLES THEN n + 1 ELSE MAX_SAMPLES
    IN  /\ Len(t) = k
        /\ t[k] = x
        /\ \A i \in 1..(k - 1) : t[i] = s[n + 1 - k + i]

\* C12: every new-reading event appends exactly one sample to each of the
\* four series and then, after the append and the trim, starts exactly one
\* render, which uses the slider's value of that moment and has the new
\* sample in the window it selects.
ReadingThenRender ==
    [][ Len(arrived') = Len(arrived) + 1 =>
          LET new == arrived'[Len(arrived')]
              sel == current'.CurrentXData
          IN  /\ AppendedOne(xData, xData', new.t)
              /\ AppendedOne(yDataT, yDataT', new.T)
              /\ AppendedOne(yDataG, yDataG', new.G)
              /\ AppendedOne(yDataH, yDataH', new.H)
              /\ event'.renders = 1
              /\ event'.raised = "none"
              /\ timeLabel' = slider
              /\ sel = SelectSeq(xDataZeroMin',
                                 LAMBDA x : x >= -(slider * MINUTE))
              /\ sel[Len(sel)] = 0
              /\ current'.CurrentYDataT[Len(sel)] = new.T
              /\ current'.CurrentYDataG[Len(sel)] = new.G
              /\ current'.CurrentYDataH[Len(sel)] = new.H
      ]_vars
\* a reading arrived at a full buffer with the slider at 1 minute: the
\* render selected the new sample alone
ReadingThenRenderExample ==
    /\ event.kind = "reading"
    /\ event.renders = 1
    /\ Len(arrived) > MAX_SAMPLES
    /\ slider = 1
    /\ timeLabel = 1
    /\ current.CurrentXData = <<0>>
    /\ current.CurrentYDataT = <<arrived[Len(arrived)].T>>

\* C11: the four series of the sample buffer change only when a new reading
\* arrives: a render started by the slider, a connection-established and a
\* connection-lost event leave them as they are, so the history recorded
\* before a disconnect is still there afterwards.
BufferOnlyByReading ==
    [][ Len(arrived') = Len(arrived) =>
          UNCHANGED <<xData, yDataT, yDataG, yDataH>> ]_vars
\* the connection was lost after ConnReadings readings: they are all kept
HistoryKeptOverDisconnect ==
    /\ event.kind = "disconnected"
    /\ event.raised = "none"
    /\ ~led
    /\ Len(arrived) = ConnReadings
    /\ Len(xData) = ConnReadings
    /\ \A i \in 1..ConnReadings :
          xData[i] = arrived[i].t /\ yDataT[i] = arrived[i].T

\* C15: handling a reading with a temperature above 310 K sets the
\* controller's heater_auto to 'OFF' and then its heater output to 0; a
\* reading at or below 310 K causes no write by the overheat check.
OverheatShutsHeater ==
    ctlEvent.handler = "_check_overheat" =>
        IF ctlEvent.arg > 310 * KELVIN
        THEN /\ writes = << <<"heater_auto", "OFF">>, <<"heater", 0>> >>
             /\ control.heater_auto = "OFF"
             /\ control.heater = 0
             /\ control.t_setpoint = ctlEvent.before.t_setpoint
        ELSE /\ writes = << >>
             /\ control = ctlEvent.before
\* a reading of 310.1 K found the heater in automatic mode at 50 percent
OverheatExample ==
    /\ ctlEvent.handler = "_check_overheat"
    /\ ctlEvent.arg = 3101
    /\ ctlEvent.before.heater_auto = "ON"
    /\ ctlEvent.before.heater = 50
    /\ control.heater_auto = "OFF"
    /\ control.heater = 0

HandlersMatchConnection ==
    /\ lastConn = "connected" => (nSlots = 1 /\ nUnpaired = 1)
    /\ lastConn = "disconnected" => (nSlots = 0 /\ nUnpaired = 0)
    /\ event.kind \in {"connected", "disconnected"} => event.raised = "none"
====
